---- MODULE Spec2Model ----
(***************************************************************************)
(* Client-side resilience layer of ai-knowledge: ApiCache, CachedApiClient,*)
(* useAsyncOperation and useFileUpload, modelled as state machines.        *)
(* Strings that the code concatenates or searches (URLs, cache keys) are   *)
(* sequences of one-character strings, so that key derivation and          *)
(* String.includes are computed rather than assumed.                       *)
(***************************************************************************)
EXTENDS Integers, Sequences, FiniteSets, TLC

\* ------------------------------------------------------------------------
\* Bounds of the model
\* ------------------------------------------------------------------------
MaxTime == 3

\* ------------------------------------------------------------------------
\* State
\* ------------------------------------------------------------------------
VARIABLES
    \* ApiCache
    cache,              \* the Map of CacheItems, in insertion order
    now,                \* Date.now()
    lastOp,             \* the latest ApiCache call and what it returned
    \* useFileUpload
    selectedFiles,      \* File[] state
    validationResults,  \* result of validateFiles for the selection
    uploadProgress,     \* Map fileId -> UploadProgress
    abortControllers,   \* abortControllersRef: fileId -> owning call, 0 if none
    uploadQueue,        \* uploadQueueRef
    activeUploads,      \* activeUploadsRef
    uploadCalls,        \* uploadSingleFile invocations, in start order
    uploadFilesCalled,  \* number of uploadFiles() invocations
    results,            \* the results array of the running uploadFiles()
    completeEvents,     \* argument of each onAllUploadsComplete invocation
    \* useAsyncOperation
    asyncOptions,       \* retainDataOnError and debounceMs of the mounted hook
    asyncState,         \* AsyncState: data, loading, error, lastUpdated
    abortControllerRef, \* execution owning abortControllerRef.current, 0 if null
    debounceTimeout,    \* the timer behind debounceTimeoutRef.current
    executeCalls,       \* number of execute() invocations
    executions,         \* executeOperation runs, in start order
    callbackLog,        \* onSuccess / onError deliveries, in order
    \* CachedApiClient and the backend behind its transport
    serverVersion,      \* backend: version of each resource family's data
    requests,           \* transport requests of get / post / put / delete / refresh
    backgroundRefreshPromises,  \* keys with a background refresh in flight
    lastReturn,         \* what the latest settled client call gave its caller
    mutated,            \* per family, the version the latest returned mutation left
    \* withRetry
    retryRun,           \* one call of withRetry: config, attempt, position, history
    \* useOptimisticUpdate
    optState,           \* OptimisticState: data, loading, error, isOptimistic
    rollbackTimeoutRef, \* the apply whose rollback timer the ref holds, 0 for null
    originalDataRef,    \* the value a rollback restores
    applies,            \* executeOptimisticUpdate calls: operation and rollback timer
    optCallbackLog      \* onSuccess / onError deliveries, in order

cacheVars == <<cache, lastOp>>
asyncVars == <<asyncOptions, asyncState, abortControllerRef, debounceTimeout,
               executeCalls, executions, callbackLog>>
uploadVars == <<selectedFiles, validationResults, uploadProgress, abortControllers,
                uploadQueue, activeUploads, uploadCalls, uploadFilesCalled,
                results, completeEvents>>
clientVars == <<serverVersion, requests, backgroundRefreshPromises, lastReturn, mutated>>
retryVars == <<retryRun>>
optVars == <<optState, rollbackTimeoutRef, originalDataRef, applies, optCallbackLog>>
vars == <<now, cacheVars, uploadVars, asyncVars, clientVars, retryVars, optVars>>
\* What the handlers of one component leave alone.
notCache == <<uploadVars, asyncVars, clientVars, retryVars, optVars>>
notUpload == <<now, cacheVars, asyncVars, clientVars, retryVars, optVars>>
notAsync == <<cacheVars, uploadVars, clientVars, retryVars, optVars>>
notClient == <<lastOp, uploadVars, asyncVars, retryVars, optVars>>
notRetry == <<now, cacheVars, uploadVars, asyncVars, clientVars, optVars>>
notOpt == <<cacheVars, uploadVars, asyncVars, clientVars, retryVars>>

\* ------------------------------------------------------------------------
\* Values shared by the components
\* ------------------------------------------------------------------------
\* null and undefined results; every data value is a non-empty tuple.
Null == <<>>

\* ========================================================================
\* ApiCache
\* ========================================================================

\* CacheConfig.maxSize and CacheConfig.defaultTTL, set small (the global
\* instance is built with 100 entries and 5 minutes).
maxSize == 2
defaultTTL == 2

UrlA == <<"/", "a">>
UrlC == <<"/", "c">>
CacheUrls == {UrlA, UrlC}

\* A params object is the sequence of its (name, value) properties in
\* insertion order. A call without params has defined = FALSE.
NoParams == [defined |-> FALSE, props |-> <<>>]
ParamPQ == [defined |-> TRUE, props |-> << <<"p", "1">>, <<"q", "2">> >>]
ParamQP == [defined |-> TRUE, props |-> << <<"q", "2">>, <<"p", "1">> >>]
ParamObjs == {NoParams, ParamPQ, ParamQP}
\* The (url, params) pairs the model calls ApiCache with.
CacheCalls == {<<UrlA, NoParams>>, <<UrlA, ParamPQ>>, <<UrlA, ParamQP>>, <<UrlC, NoParams>>}
Data == {<<"d1">>}
\* The optional ttl argument; 0 also stands for a call that omits it, since
\* set() reads it as `ttl || defaultTTL`.
Ttls == {0, 1}

RECURSIVE stringifyProps(_)
stringifyProps(props) ==
    IF Len(props) = 0 THEN <<>>
    ELSE LET p == Head(props)
             one == <<"\"", p[1], "\"", ":", p[2]>>
         IN IF Len(props) = 1 THEN one
            ELSE one \o <<",">> \o stringifyProps(Tail(props))

\* JSON.stringify of a flat object: properties in insertion order.
JSONstringify(params) == <<"{">> \o stringifyProps(params.props) \o <<"}">>

generateKey(url, params) ==
    LET paramString == IF params.defined THEN JSONstringify(params) ELSE <<>>
    IN url \o <<":">> \o paramString

\* isExpired that never expires an entry.
isExpiredNever(item, t) == FALSE

isExpired(item, t) == t - item.timestamp > item.ttl

\* Index of key in the Map (insertion order), 0 when absent.
MapIndex(c, key) ==
    IF \E i \in DOMAIN c : c[i].key = key
    THEN CHOOSE i \in DOMAIN c : c[i].key = key
    ELSE 0

\* Map.set keeps the position of a key that is already present.
MapSet(c, item) ==
    IF MapIndex(c, item.key) = 0 THEN Append(c, item)
    ELSE [c EXCEPT ![MapIndex(c, item.key)] = item]

MapDelete(c, key) == SelectSeq(c, LAMBDA e : e.key # key)

\* cleanup whose size limit deletes the newest keys instead of the oldest.
cleanupKeepOldest(c, t) ==
    LET live == SelectSeq(c, LAMBDA e : ~isExpired(e, t))
    IN IF Len(live) > maxSize THEN SubSeq(live, 1, maxSize) ELSE live

\* cleanup without the size limit.
cleanupNoLimit(c, t) == SelectSeq(c, LAMBDA e : ~isExpired(e, t))

cleanup(c, t) ==
    LET live == SelectSeq(c, LAMBDA e : ~isExpired(e, t))
    IN IF Len(live) > maxSize
       THEN SubSeq(live, Len(live) - maxSize + 1, Len(live))
       ELSE live

\* Number of keys the size limit of cleanup() deletes from store c at time t.
evictCount(c, t) ==
    LET live == SelectSeq(c, LAMBDA e : ~isExpired(e, t))
    IN IF Len(live) > maxSize THEN Len(live) - maxSize ELSE 0

\* The keys the size limit of cleanup() deletes from store c at time t.
keysToDelete(c, t) ==
    LET live == SelectSeq(c, LAMBDA e : ~isExpired(e, t))
    IN [i \in 1..evictCount(c, t) |-> live[i].key]

\* Result of ApiCache.get on store c (already cleaned) at time t.
cacheLookup(c, key, t) ==
    LET i == MapIndex(c, key)
    IN IF i # 0 /\ ~isExpired(c[i], t) THEN c[i].data ELSE Null

\* The CacheItem that set() builds.
cacheItem(key, data, ttl, t) ==
    [key |-> key, data |-> data, timestamp |-> t,
     ttl |-> IF ttl = 0 THEN defaultTTL ELSE ttl]

cacheAfterSet(c, key, data, ttl, t) ==
    cleanup(MapSet(c, cacheItem(key, data, ttl, t)), t)

\* String.includes: pattern occurs as a contiguous run of characters.
includes(s, pattern) ==
    \E i \in 1..(Len(s) - Len(pattern) + 1) :
        SubSeq(s, i, i + Len(pattern) - 1) = pattern

cacheAfterInvalidatePattern(c, pattern) ==
    SelectSeq(c, LAMBDA e : ~includes(e.key, pattern))

CacheGet(url, params) ==
    LET cleaned == cleanup(cache, now)
    IN /\ cache' = cleaned
       /\ lastOp' = [op |-> "get", evicted |-> evictCount(cache, now),
                     key |-> generateKey(url, params), afterHit |-> FALSE,
                     result |-> cacheLookup(cleaned, generateKey(url, params), now)]
       /\ now' = now
       /\ UNCHANGED notCache

CacheSet(url, data, params, ttl) ==
    /\ cache' = cacheAfterSet(cache, generateKey(url, params), data, ttl, now)
    /\ LET stored == MapSet(cache, cacheItem(generateKey(url, params), data, ttl, now))
           deleted == keysToDelete(stored, now)
       IN lastOp' = [op |-> "set", result |-> Null,
                     key |-> generateKey(url, params),
                     evicted |-> evictCount(stored, now),
                     \* the size limit deleted the key the preceding get had hit
                     afterHit |-> /\ lastOp.op = "get"
                                  /\ lastOp.result # Null
                                  /\ \E i \in DOMAIN deleted : deleted[i] = lastOp.key]
    /\ now' = now
    /\ UNCHANGED notCache

CacheInvalidate(url, params) ==
    /\ cache' = MapDelete(cache, generateKey(url, params))
    /\ lastOp' = [op |-> "invalidate", evicted |-> 0, key |-> <<>>, afterHit |-> FALSE,
                  result |-> Null]
    /\ now' = now
    /\ UNCHANGED notCache

CacheInvalidatePattern(pattern) ==
    /\ cache' = cacheAfterInvalidatePattern(cache, pattern)
    /\ lastOp' = [op |-> "invalidatePattern", evicted |-> 0, key |-> <<>>, afterHit |-> FALSE,
                  result |-> Null]
    /\ now' = now
    /\ UNCHANGED notCache

CacheClear ==
    /\ cache' = <<>>
    /\ lastOp' = [op |-> "clear", evicted |-> 0, key |-> <<>>, afterHit |-> FALSE,
                  result |-> Null]
    /\ now' = now
    /\ UNCHANGED notCache

\* Date.now() advances between operations.
CacheTick ==
    /\ now < MaxTime
    /\ now' = now + 1
    /\ lastOp' = [op |-> "tick", evicted |-> 0, key |-> <<>>, afterHit |-> FALSE,
                  result |-> Null]
    /\ cache' = cache
    /\ UNCHANGED notCache

CacheInit ==
    /\ cache = <<>>
    /\ now = 0
    /\ lastOp = [op |-> "none", evicted |-> 0, key |-> <<>>, afterHit |-> FALSE,
                  result |-> Null]

CacheNext ==
    \/ \E call \in CacheCalls : CacheGet(call[1], call[2])
    \/ \E call \in CacheCalls, d \in Data, t \in Ttls : CacheSet(call[1], d, call[2], t)
    \/ \E call \in CacheCalls : CacheInvalidate(call[1], call[2])
    \/ \E pat \in {<<"a">>, <<"c">>} : CacheInvalidatePattern(pat)
    \/ CacheClear
    \/ CacheTick

\* ========================================================================
\* useFileUpload
\* ========================================================================
\* Longest selection the model passes to selectFiles.
MaxFiles == 4
\* Options of the hook, set small: maxConcurrentUploads (default 3),
\* validationConfig.maxFiles (default 10), validationConfig.maxSize.
maxConcurrentUploads == 2
configMaxFiles == 3
configMaxSize == 2

allowedTypes == {"application/pdf"}
allowedExtensions == {".pdf"}
suspiciousExtensions == {".exe"}

\* A File without its name; the i-th file of a selection has fileId i (the
\* files of a selection differ in name or in lastModified).
GoodFile == [size |-> 2, type |-> "application/pdf", extension |-> ".pdf"]
BadExtFile == [size |-> 1, type |-> "application/pdf", extension |-> ".exe"]
BadTypeFile == [size |-> 1, type |-> "image/png", extension |-> ".pdf"]
EmptyFile == [size |-> 0, type |-> "application/pdf", extension |-> ".pdf"]
BigFile == [size |-> 3, type |-> "application/pdf", extension |-> ".pdf"]
FileKinds == {GoodFile, BadExtFile, BadTypeFile, EmptyFile, BigFile}

\* file.name: the stem (a number) followed by the extension.
fileName(file) == <<file.name, file.extension>>

CancelledMsg == "upload cancelled"
NetworkMsg == "upload failed"
Terminal == {"completed", "error", "cancelled"}

\* validateFile: the set of errors of one file; it is valid iff there are none.
validateFile(file) ==
    LET errors ==
            (IF file.size > configMaxSize THEN {"too large"} ELSE {})
            \cup (IF file.type \notin allowedTypes THEN {"type"} ELSE {})
            \cup (IF file.extension \notin allowedExtensions THEN {"extension"} ELSE {})
            \cup (IF file.size = 0 THEN {"empty"} ELSE {})
            \cup (IF file.extension \in suspiciousExtensions THEN {"suspicious"} ELSE {})
    IN [isValid |-> errors = {}, errors |-> errors]

RECURSIVE totalSize(_)
totalSize(files) ==
    IF Len(files) = 0 THEN 0 ELSE Head(files).size + totalSize(Tail(files))

\* fileNames.filter((name, index) => fileNames.indexOf(name) !== index)
duplicates(files) ==
    {i \in DOMAIN files : \E j \in 1..(i - 1) : fileName(files[j]) = fileName(files[i])}

globalErrorsOf(files) ==
    (IF Len(files) > configMaxFiles THEN {"too many files"} ELSE {})
    \cup (IF duplicates(files) # {} THEN {"duplicate names"} ELSE {})
    \cup (IF totalSize(files) > configMaxSize * configMaxFiles
          THEN {"total size"} ELSE {})

\* validateFiles whose isValid looks at the global errors only.
validateFilesGlobalOnly(files) ==
    LET fileResults == [i \in DOMAIN files |-> validateFile(files[i])]
    IN [present |-> TRUE,
        isValid |-> globalErrorsOf(files) = {},
        results |-> fileResults,
        globalErrors |-> globalErrorsOf(files)]

\* validateFiles whose isValid looks at the files' own results only.
validateFilesPerFileOnly(files) ==
    LET fileResults == [i \in DOMAIN files |-> validateFile(files[i])]
    IN [present |-> TRUE,
        isValid |-> \A i \in DOMAIN files : fileResults[i].isValid,
        results |-> fileResults,
        globalErrors |-> globalErrorsOf(files)]

validateFiles(files) ==
    LET fileResults == [i \in DOMAIN files |-> validateFile(files[i])]
        globalErrors == globalErrorsOf(files)
    IN [present |-> TRUE,
        isValid |-> globalErrors = {} /\ \A i \in DOMAIN files : fileResults[i].isValid,
        results |-> fileResults,
        globalErrors |-> globalErrors]

NoValidation == [present |-> FALSE, isValid |-> FALSE, results |-> <<>>, globalErrors |-> {}]

SelectFiles(files) ==
    /\ ~validationResults.present
    /\ LET validation == validateFiles(files)
       IN /\ selectedFiles' = files
          /\ validationResults' = validation
          /\ uploadProgress' =
                [i \in DOMAIN files |->
                    [status |-> IF validation.isValid THEN "pending" ELSE "error",
                     progress |-> 0,
                     uploaded |-> 0,
                     error |-> IF validation.results[i].errors = {} THEN "" ELSE "validation"]]
    /\ UNCHANGED <<abortControllers, uploadQueue, activeUploads, uploadCalls,
                   uploadFilesCalled, results, completeEvents>>
    /\ UNCHANGED notUpload

\* updateProgress merges the given fields into the task, if it is tracked.
updateProgress(progress, fileId, updates) ==
    IF fileId \in DOMAIN progress
    THEN [progress EXCEPT ![fileId] = updates @@ @]
    ELSE progress

\* The hook's mutable refs and state that one handler run threads through.
UploadState ==
    [progress |-> uploadProgress, controllers |-> abortControllers,
     queue |-> uploadQueue, active |-> activeUploads, calls |-> uploadCalls]

\* uploadSingleFile up to its fetch: registers a fresh AbortController for the
\* file, marks the task 'uploading' and leaves the transport call in flight.
uploadSingleFileStart(u, fileId, origin) ==
    [u EXCEPT
        !.calls = Append(@, [fileId |-> fileId, origin |-> origin,
                             inflight |-> TRUE, aborted |-> FALSE,
                             lastLoaded |-> 0]),
        !.controllers = [@ EXCEPT ![fileId] = Len(u.calls) + 1],
        !.progress = updateProgress(@, fileId, [status |-> "uploading"])]

RECURSIVE processUploadQueue(_)
processUploadQueue(u) ==
    IF Len(u.queue) > 0 /\ Cardinality(u.active) < maxConcurrentUploads
    THEN LET fileId == Head(u.queue)
             shifted == [u EXCEPT !.queue = Tail(@)]
         IN IF fileId \notin DOMAIN selectedFiles
            THEN processUploadQueue(shifted)
            ELSE processUploadQueue(
                     uploadSingleFileStart(
                         [shifted EXCEPT !.active = @ \cup {fileId}], fileId, "queue"))
    ELSE u

\* selectedFiles.map(async file => ... await uploadSingleFile(file) ...):
\* every selected file gets an uploadSingleFile call of its own.
RECURSIVE startBatchUploads(_, _)
startBatchUploads(u, fileIds) ==
    IF Len(fileIds) = 0 THEN u
    ELSE startBatchUploads(uploadSingleFileStart(u, Head(fileIds), "batch"), Tail(fileIds))

FileIds == [i \in DOMAIN selectedFiles |-> i]

\* uploadFiles() up to `await Promise.allSettled(promises)`. The UI offers it
\* once per selection (while nothing is uploading or completed).
UploadFiles ==
    /\ validationResults.present
    /\ uploadFilesCalled = 0
    /\ uploadFilesCalled' = 1
    /\ IF ~validationResults.isValid \/ Len(selectedFiles) = 0
       THEN UNCHANGED <<uploadProgress, abortControllers, uploadQueue, activeUploads,
                        uploadCalls>>
       ELSE LET queued == [UploadState EXCEPT !.queue = FileIds]
                u == startBatchUploads(processUploadQueue(queued), FileIds)
            IN /\ uploadProgress' = u.progress
               /\ abortControllers' = u.controllers
               /\ uploadQueue' = u.queue
               /\ activeUploads' = u.active
               /\ uploadCalls' = u.calls
    /\ UNCHANGED <<selectedFiles, validationResults, results, completeEvents>>
    /\ UNCHANGED notUpload

BatchCalls == {c \in DOMAIN uploadCalls : uploadCalls[c].origin = "batch"}

\* uploadSingleFileSettle with the aggregate callback fired by every promise of
\* the batch instead of after Promise.allSettled.
uploadSingleFileSettleEager(c, updates, success) ==
    LET fileId == uploadCalls[c].fileId
        pushed == Append(results, [fileId |-> fileId, success |-> success])
    IN /\ uploadProgress' = updateProgress(uploadProgress, fileId, updates)
       /\ abortControllers' = [abortControllers EXCEPT ![fileId] = 0]
       /\ activeUploads' = activeUploads \ {fileId}
       /\ uploadCalls' = [uploadCalls EXCEPT ![c].inflight = FALSE,
                                             ![c].lastLoaded = 0]
       /\ IF uploadCalls[c].origin = "batch"
          THEN /\ results' = pushed
               /\ completeEvents' = Append(completeEvents, pushed)
          ELSE UNCHANGED <<results, completeEvents>>
       /\ UNCHANGED <<selectedFiles, validationResults, uploadQueue, uploadFilesCalled>>
       /\ UNCHANGED notUpload

\* uploadSingleFileSettle whose failure branch marks every task of the batch
\* as failed.
uploadSingleFileSettleFailsAll(c, updates, success) ==
    LET fileId == uploadCalls[c].fileId
        pushed == Append(results, [fileId |-> fileId, success |-> success])
    IN /\ uploadProgress' =
            IF success THEN updateProgress(uploadProgress, fileId, updates)
            ELSE [f \in DOMAIN uploadProgress |-> updates @@ uploadProgress[f]]
       /\ abortControllers' = [abortControllers EXCEPT ![fileId] = 0]
       /\ activeUploads' = activeUploads \ {fileId}
       /\ uploadCalls' = [uploadCalls EXCEPT ![c].inflight = FALSE,
                                             ![c].lastLoaded = 0]
       /\ IF uploadCalls[c].origin = "batch"
          THEN /\ results' = pushed
               /\ completeEvents' =
                    IF \A d \in BatchCalls \ {c} : ~uploadCalls[d].inflight
                    THEN Append(completeEvents, pushed)
                    ELSE completeEvents
          ELSE UNCHANGED <<results, completeEvents>>
       /\ UNCHANGED <<selectedFiles, validationResults, uploadQueue, uploadFilesCalled>>
       /\ UNCHANGED notUpload

\* The rest of uploadSingleFile once its transport call has settled: the
\* status update of the branch taken, the finally block, and, for a call made
\* by uploadFiles' map, the push to results and the aggregate callback when
\* the last promise settles.
uploadSingleFileSettle(c, updates, success) ==
    LET fileId == uploadCalls[c].fileId
        pushed == Append(results, [fileId |-> fileId, success |-> success])
    IN /\ uploadProgress' = updateProgress(uploadProgress, fileId, updates)
       /\ abortControllers' = [abortControllers EXCEPT ![fileId] = 0]
       /\ activeUploads' = activeUploads \ {fileId}
       /\ uploadCalls' = [uploadCalls EXCEPT ![c].inflight = FALSE,
                                             ![c].lastLoaded = 0]
       /\ IF uploadCalls[c].origin = "batch"
          THEN /\ results' = pushed
               /\ completeEvents' =
                    IF \A d \in BatchCalls \ {c} : ~uploadCalls[d].inflight
                    THEN Append(completeEvents, pushed)
                    ELSE completeEvents
          ELSE UNCHANGED <<results, completeEvents>>
       /\ UNCHANGED <<selectedFiles, validationResults, uploadQueue, uploadFilesCalled>>
       /\ UNCHANGED notUpload

\* Math.round((loaded / total) * 100)
percent(loaded, total) == (200 * loaded + total) \div (2 * total)

\* The onUploadProgress callback of call c runs for a progress event of its
\* transport: event.total is the file's size and event.loaded has grown since
\* the call's previous event (lastLoaded). window.fetch does not read the
\* onUploadProgress member of its init, so the callback runs only over a
\* transport that reports upload progress (UploadProgressNext).
UploadProgressEvent(c, loaded) ==
    LET fileId == uploadCalls[c].fileId
        total == selectedFiles[fileId].size
    IN /\ uploadCalls[c].inflight /\ ~uploadCalls[c].aborted
       /\ loaded > uploadCalls[c].lastLoaded
       /\ loaded <= total
       /\ uploadProgress' = updateProgress(uploadProgress, fileId,
                                [progress |-> percent(loaded, total),
                                 uploaded |-> loaded])
       /\ uploadCalls' = [uploadCalls EXCEPT ![c].lastLoaded = loaded]
       /\ UNCHANGED <<selectedFiles, validationResults, abortControllers, uploadQueue,
                      activeUploads, uploadFilesCalled, results, completeEvents>>
       /\ UNCHANGED notUpload

UploadSucceeds(c) ==
    /\ uploadCalls[c].inflight /\ ~uploadCalls[c].aborted
    /\ uploadSingleFileSettle(c,
           [status |-> "completed", progress |-> 100,
            uploaded |-> selectedFiles[uploadCalls[c].fileId].size],
           TRUE)

UploadFails(c) ==
    /\ uploadCalls[c].inflight /\ ~uploadCalls[c].aborted
    /\ uploadSingleFileSettle(c, [status |-> "error", error |-> NetworkMsg], FALSE)

\* The fetch of an aborted controller rejects with AbortError; the call
\* returns null, so its promise in uploadFiles resolves.
UploadAborted(c) ==
    /\ uploadCalls[c].inflight /\ uploadCalls[c].aborted
    /\ uploadSingleFileSettle(c, [status |-> "cancelled", error |-> CancelledMsg], TRUE)

abortCall(calls, c) ==
    IF c # 0 THEN [calls EXCEPT ![c].aborted = TRUE] ELSE calls

CancelUpload(fileId) ==
    /\ uploadCalls' = abortCall(uploadCalls, abortControllers[fileId])
    /\ uploadQueue' = SelectSeq(uploadQueue, LAMBDA id : id # fileId)
    /\ uploadProgress' = updateProgress(uploadProgress, fileId,
                             [status |-> "cancelled", error |-> CancelledMsg])
    /\ UNCHANGED <<selectedFiles, validationResults, abortControllers, activeUploads,
                   uploadFilesCalled, results, completeEvents>>
    /\ UNCHANGED notUpload

CancelAllUploads ==
    /\ validationResults.present
    /\ uploadCalls' =
          [c \in DOMAIN uploadCalls |->
              IF \E f \in DOMAIN abortControllers : abortControllers[f] = c
              THEN [uploadCalls[c] EXCEPT !.aborted = TRUE]
              ELSE uploadCalls[c]]
    /\ abortControllers' = [f \in DOMAIN abortControllers |-> 0]
    /\ uploadQueue' = <<>>
    /\ activeUploads' = {}
    /\ uploadProgress' =
          [f \in DOMAIN uploadProgress |->
              IF uploadProgress[f].status \in {"uploading", "pending"}
              THEN [status |-> "cancelled", error |-> CancelledMsg] @@ uploadProgress[f]
              ELSE uploadProgress[f]]
    /\ UNCHANGED <<selectedFiles, validationResults, uploadFilesCalled, results,
                   completeEvents>>
    /\ UNCHANGED notUpload

\* The selections passed to selectFiles: the i-th file has a name of its own
\* (stem i), or it is a good file that has the stem of the first file.
FileChoices == (FileKinds \X {FALSE}) \cup {<<GoodFile, TRUE>>}
Selections ==
    UNION {{[i \in 1..n |-> [name |-> IF pick[i][2] THEN 1 ELSE i] @@ pick[i][1]] :
               pick \in [1..n -> FileChoices]} : n \in 1..MaxFiles}

UploadInit ==
    /\ selectedFiles = <<>>
    /\ validationResults = NoValidation
    /\ uploadProgress = <<>>
    /\ abortControllers = [f \in 1..MaxFiles |-> 0]
    /\ uploadQueue = <<>>
    /\ activeUploads = {}
    /\ uploadCalls = <<>>
    /\ uploadFilesCalled = 0
    /\ results = <<>>
    /\ completeEvents = <<>>

UploadNext ==
    \/ \E files \in Selections : SelectFiles(files)
    \/ UploadFiles
    \/ \E c \in DOMAIN uploadCalls : UploadSucceeds(c)
    \/ \E c \in DOMAIN uploadCalls : UploadFails(c)
    \/ \E c \in DOMAIN uploadCalls : UploadAborted(c)
    \/ \E f \in DOMAIN uploadProgress : CancelUpload(f)
    \/ CancelAllUploads

\* The hook over a transport that reports upload progress to the
\* onUploadProgress callback, for selections of at most MaxProgressFiles files.
MaxProgressFiles == 2
ProgressSelections == {files \in Selections : Len(files) <= MaxProgressFiles}

UploadProgressNext ==
    \/ \E files \in ProgressSelections : SelectFiles(files)
    \/ UploadFiles
    \/ \E c \in DOMAIN uploadCalls, loaded \in 1..configMaxSize :
         UploadProgressEvent(c, loaded)
    \/ \E c \in DOMAIN uploadCalls : UploadSucceeds(c)
    \/ \E c \in DOMAIN uploadCalls : UploadFails(c)
    \/ \E c \in DOMAIN uploadCalls : UploadAborted(c)
    \/ \E f \in DOMAIN uploadProgress : CancelUpload(f)
    \/ CancelAllUploads

\* ========================================================================
\* useAsyncOperation
\* ========================================================================
\* Number of execute() calls the model makes on one hook instance.
MaxExecutes == 3
\* The debounceMs option when debouncing is on.
debounceDelay == 1

NoTimer == [pending |-> FALSE, call |-> 0, due |-> 0]
Unmounted ==
    [mounted |-> FALSE, retainDataOnError |-> TRUE, debounceMs |-> 0,
     onSuccessThrows |-> FALSE, onErrorThrows |-> FALSE]
\* lastUpdated holds a timestamp t as <<t>>, null as Null.
InitialAsyncState ==
    [data |-> Null, loading |-> FALSE, error |-> Null, lastUpdated |-> Null]

\* The result and the error of the asyncFunction call made for the n-th
\* execute(): each call has its own.
resultOf(n) == <<"result", n>>
errorOf(n) == <<"error", n>>
\* The NetworkError made of an exception that onSuccess threw for that call.
thrownBy(n) == <<"thrown", n>>

\* onSuccessThrows / onErrorThrows: whether the callback the caller passed
\* throws when it is called.
AsyncMount(retain, debounceMs, onSuccessThrows, onErrorThrows) ==
    /\ ~asyncOptions.mounted
    /\ asyncOptions' = [mounted |-> TRUE, retainDataOnError |-> retain,
                        debounceMs |-> debounceMs,
                        onSuccessThrows |-> onSuccessThrows,
                        onErrorThrows |-> onErrorThrows]
    /\ UNCHANGED <<asyncState, abortControllerRef, debounceTimeout, executeCalls,
                   executions, callbackLog, now>>
    /\ UNCHANGED notAsync

\* abortControllerRef.current.abort(), when the ref is not null.
abortCurrent(execs, ref) ==
    IF ref # 0 THEN [execs EXCEPT ![ref].aborted = TRUE] ELSE execs

\* executeOperation up to `await asyncFunction(...args)`, for the n-th execute().
\* awaited: execute() awaits this run (no debounce), so an exception that
\* escapes it rejects the promise execute() returned.
executeOperationStart(execs, n, awaited) ==
    /\ executions' = Append(execs, [call |-> n, aborted |-> FALSE, inflight |-> TRUE,
                                    awaited |-> awaited, threw |-> FALSE])
    /\ abortControllerRef' = Len(execs) + 1
    /\ asyncState' = [asyncState EXCEPT !.loading = TRUE, !.error = Null]

\* A debounce timer that keeps the call of the timer it replaces.
debounceTimerKeepsFirst(n, t, ms) ==
    [pending |-> TRUE,
     call |-> IF debounceTimeout.pending THEN debounceTimeout.call ELSE n,
     due |-> t + ms]

\* setTimeout(executeOperation, debounceMs) for the n-th execute(), made at time t.
debounceTimer(n, t, ms) == [pending |-> TRUE, call |-> n, due |-> t + ms]

Execute ==
    /\ asyncOptions.mounted
    /\ executeCalls < MaxExecutes
    /\ executeCalls' = executeCalls + 1
    /\ LET aborted == abortCurrent(executions, abortControllerRef)
       IN IF asyncOptions.debounceMs > 0
          THEN /\ debounceTimeout' = debounceTimer(executeCalls + 1, now,
                                                    asyncOptions.debounceMs)
               /\ executions' = aborted
               /\ UNCHANGED <<abortControllerRef, asyncState>>
          ELSE /\ debounceTimeout' = NoTimer
               /\ executeOperationStart(aborted, executeCalls + 1, TRUE)
    /\ UNCHANGED <<asyncOptions, callbackLog, now>>
    /\ UNCHANGED notAsync

\* The debounce timer runs executeOperation once its delay has passed.
DebounceFires ==
    /\ debounceTimeout.pending
    /\ now >= debounceTimeout.due
    /\ debounceTimeout' = NoTimer
    /\ executeOperationStart(executions, debounceTimeout.call, FALSE)
    /\ UNCHANGED <<asyncOptions, executeCalls, callbackLog, now>>
    /\ UNCHANGED notAsync

\* The rest of executeOperation once asyncFunction has settled: the aborted
\* check, the state update and callback of the branch, and the finally block.
executeOperationSettle(e, ok) ==
    LET n == executions[e].call
        \* the try block got as far as onSuccess, which threw
        successThrew == ok /\ asyncOptions.onSuccessThrows
        \* the catch block ran
        caught == ~ok \/ successThrew
        succeeded == [data |-> resultOf(n), loading |-> FALSE,
                      error |-> Null, lastUpdated |-> <<now>>]
        prev == IF ok THEN succeeded ELSE asyncState
        failed == [data |-> IF asyncOptions.retainDataOnError THEN prev.data ELSE Null,
                   loading |-> FALSE,
                   error |-> IF ok THEN thrownBy(n) ELSE errorOf(n),
                   lastUpdated |-> <<now>>]
    IN /\ executions[e].inflight
       /\ abortControllerRef' = 0
       /\ IF executions[e].aborted
          THEN /\ executions' = [executions EXCEPT ![e].inflight = FALSE]
               /\ UNCHANGED <<asyncState, callbackLog>>
          ELSE /\ executions' = [executions EXCEPT
                                   ![e].inflight = FALSE,
                                   ![e].threw = caught /\ asyncOptions.onErrorThrows]
               /\ asyncState' = IF caught THEN failed ELSE succeeded
               /\ callbackLog' =
                    callbackLog
                    \o (IF ok THEN <<[kind |-> "onSuccess", execution |-> e]>> ELSE <<>>)
                    \o (IF caught THEN <<[kind |-> "onError", execution |-> e]>> ELSE <<>>)
       /\ UNCHANGED <<asyncOptions, debounceTimeout, executeCalls, now>>
       /\ UNCHANGED notAsync

AsyncResolves(e) == executeOperationSettle(e, TRUE)

AsyncRejects(e) == executeOperationSettle(e, FALSE)

AsyncReset ==
    /\ asyncOptions.mounted
    /\ executions' = abortCurrent(executions, abortControllerRef)
    /\ debounceTimeout' = NoTimer
    /\ asyncState' = InitialAsyncState
    /\ UNCHANGED <<asyncOptions, abortControllerRef, executeCalls, callbackLog, now>>
    /\ UNCHANGED notAsync

AsyncTick ==
    /\ asyncOptions.mounted
    /\ now < MaxTime
    /\ now' = now + 1
    /\ UNCHANGED asyncVars
    /\ UNCHANGED notAsync

AsyncInit ==
    /\ asyncOptions = Unmounted
    /\ asyncState = InitialAsyncState
    /\ abortControllerRef = 0
    /\ debounceTimeout = NoTimer
    /\ executeCalls = 0
    /\ executions = <<>>
    /\ callbackLog = <<>>

AsyncNext ==
    \/ \E retain \in BOOLEAN, d \in {0, debounceDelay},
          onSuccessThrows \in BOOLEAN, onErrorThrows \in BOOLEAN :
         AsyncMount(retain, d, onSuccessThrows, onErrorThrows)
    \/ Execute
    \/ DebounceFires
    \/ \E e \in DOMAIN executions : AsyncResolves(e)
    \/ \E e \in DOMAIN executions : AsyncRejects(e)
    \/ AsyncReset
    \/ AsyncTick

\* ========================================================================
\* CachedApiClient (get / post / put / delete over the global ApiCache)
\* ========================================================================

\* Transport requests the model lets the client start.
MaxRequests == 2
\* RETRY_CONFIGS.quick.maxAttempts.
maxAttempts == 2

UrlAB == <<"/", "a", "/", "b">>
ClientUrls == {UrlA, UrlAB, UrlC}
ClientCalls == {<<UrlA, NoParams>>, <<UrlAB, NoParams>>, <<UrlC, NoParams>>}
Verbs == {"post", "put", "delete"}

\* Errors axios rejects with: no response at all, or a response with a status.
AxiosErrors ==
    {[response |-> FALSE, status |-> 0],
     [response |-> TRUE, status |-> 500],
     [response |-> TRUE, status |-> 404]}
retryableStatuses == {408, 409, 429, 500, 502, 503, 504}

\* isRetryableError without 409 in its list of statuses.
isRetryableErrorNo409(error) ==
    IF ~error.response THEN TRUE ELSE error.status \in retryableStatuses \ {409}

isRetryableError(error) ==
    IF ~error.response THEN TRUE ELSE error.status \in retryableStatuses

\* The NetworkError / RetryableError handleApiError builds: it carries status
\* and isRetryable but no response property. status 0 stands for undefined.
handleApiError(error) ==
    [response |-> FALSE,
     status |-> IF error.response THEN error.status ELSE 0,
     isRetryable |-> isRetryableError(error)]

\* String.split on a one-character separator.
RECURSIVE split(_, _)
split(s, sep) ==
    IF \E i \in DOMAIN s : s[i] = sep
    THEN LET i == CHOOSE k \in DOMAIN s : s[k] = sep /\ \A j \in 1..(k - 1) : s[j] # sep
         IN <<SubSeq(s, 1, i - 1)>> \o split(SubSeq(s, i + 1, Len(s)), sep)
    ELSE <<s>>

UndefinedString == <<"u", "n", "d", "e", "f", "i", "n", "e", "d">>

\* url.split('/')[1]; String.includes turns a missing element into 'undefined'.
baseEndpoint(url) ==
    LET parts == split(url, "/")
    IN IF Len(parts) >= 2 THEN parts[2] ELSE UndefinedString

\* invalidateRelatedCache that deletes the entry of the url itself only.
invalidateRelatedCacheExact(c, url) == MapDelete(c, generateKey(url, NoParams))

invalidateRelatedCache(c, url) == cacheAfterInvalidatePattern(c, baseEndpoint(url))

\* The backend keeps one version counter per first path segment; a read returns
\* the current version, a write moves it on and returns the new one.
Families == {baseEndpoint(u) : u \in ClientUrls}

DoneRequest ==
    [kind |-> "done", verb |-> "none", url |-> <<>>, params |-> NoParams,
     key |-> <<>>, ttl |-> 0, useCache |-> FALSE, attempt |-> 0,
     phase |-> "done", data |-> Null]

newRequest(kind, verb, url, params, ttl, useCache) ==
    [kind |-> kind, verb |-> verb, url |-> url, params |-> params,
     key |-> url, ttl |-> ttl, useCache |-> useCache, attempt |-> 1,
     phase |-> "sent", data |-> Null]

NoReturn ==
    [call |-> "none", url |-> <<>>, outcome |-> "none", data |-> Null,
     fromCache |-> FALSE, refresh |-> "none", status |-> 0, attempts |-> 0]

\* refreshInBackground: one raw GET per key, none while one is in flight.
refreshInBackground(reqs, url, params, ttl) ==
    IF url \in backgroundRefreshPromises THEN reqs
    ELSE Append(reqs, newRequest("refresh", "get", url, params, ttl, TRUE))

\* get(url, config): cache first; on a hit return it (and maybe refresh in the
\* background), on a miss send the request.
\* cap: the number of transport requests the client may have started.
ClientGetCapped(call, useCache, staleWhileRevalidate, cacheTTL, cap) ==
    LET url == call[1]
        params == call[2]
        cleaned == IF useCache THEN cleanup(cache, now) ELSE cache
        cached == IF useCache THEN cacheLookup(cleaned, generateKey(url, params), now)
                  ELSE Null
        hit == cached # Null
        reqs == IF hit
                THEN IF staleWhileRevalidate
                     THEN refreshInBackground(requests, url, params, cacheTTL)
                     ELSE requests
                ELSE Append(requests, newRequest("get", "get", url, params, cacheTTL, useCache))
    IN /\ Len(reqs) <= cap
       /\ cache' = cleaned
       /\ requests' = reqs
       /\ backgroundRefreshPromises' =
            IF hit /\ staleWhileRevalidate
            THEN backgroundRefreshPromises \cup {url}
            ELSE backgroundRefreshPromises
       /\ lastReturn' = IF hit
                        THEN [call |-> "get", url |-> url, outcome |-> "data",
                              data |-> cached, fromCache |-> TRUE,
                              \* what refreshInBackground did for this hit
                              refresh |-> IF ~staleWhileRevalidate THEN "none"
                                          ELSE IF url \in backgroundRefreshPromises
                                               THEN "suppressed" ELSE "started",
                              status |-> 0, attempts |-> 0]
                        ELSE lastReturn
       /\ UNCHANGED <<now, serverVersion, mutated, notClient>>

ClientGet(call, useCache, staleWhileRevalidate, cacheTTL) ==
    ClientGetCapped(call, useCache, staleWhileRevalidate, cacheTTL, MaxRequests)

\* post / put / delete (url): send the request; the cache is touched only when
\* it has succeeded.
ClientMutateCapped(verb, url, cap) ==
    /\ Len(requests) < cap
    /\ requests' = Append(requests, newRequest("mutate", verb, url, NoParams, 0, FALSE))
    /\ UNCHANGED <<now, cache, serverVersion, backgroundRefreshPromises,
                   lastReturn, mutated, notClient>>

ClientMutate(verb, url) == ClientMutateCapped(verb, url, MaxRequests)

\* The backend serves request r: a read takes the current version, a write
\* makes the next one.
ServerResponds(r) ==
    LET req == requests[r]
        f == baseEndpoint(req.url)
        v == IF req.kind = "mutate" THEN serverVersion[f] + 1 ELSE serverVersion[f]
    IN /\ req.phase = "sent"
       /\ serverVersion' = [serverVersion EXCEPT ![f] = v]
       /\ requests' = [requests EXCEPT ![r].phase = "responded", ![r].data = <<v>>]
       /\ UNCHANGED <<now, cache, backgroundRefreshPromises, lastReturn, mutated, notClient>>

\* The response of request r reaches the client code that awaits it.
ClientReceives(r) ==
    LET req == requests[r]
    IN /\ req.phase = "responded"
       /\ requests' = [requests EXCEPT ![r] = DoneRequest]
       /\ cache' =
            CASE req.kind = "get" ->
                   IF req.useCache
                   THEN cacheAfterSet(cache, generateKey(req.key, req.params),
                                      req.data, req.ttl, now)
                   ELSE cache
              [] req.kind = "refresh" ->
                   cacheAfterSet(cache, generateKey(req.key, req.params),
                                 req.data, req.ttl, now)
              [] req.kind = "mutate" -> invalidateRelatedCache(cache, req.url)
       /\ backgroundRefreshPromises' =
            IF req.kind = "refresh" THEN backgroundRefreshPromises \ {req.key}
            ELSE backgroundRefreshPromises
       /\ lastReturn' =
            IF req.kind = "refresh" THEN lastReturn
            ELSE [call |-> req.verb, url |-> req.url, outcome |-> "data",
                  data |-> req.data, fromCache |-> FALSE, refresh |-> "none",
                  status |-> 0, attempts |-> req.attempt]
       /\ mutated' =
            IF req.kind = "mutate"
            THEN [mutated EXCEPT ![baseEndpoint(req.url)] = req.data[1]]
            ELSE mutated
       /\ UNCHANGED <<now, serverVersion, notClient>>

\* TransportFails for a mutation that invalidates the related cache entries
\* when it gives up.
TransportFailsInvalidates(r, error) ==
    LET req == requests[r]
        handled == handleApiError(error)
        giveUp == req.attempt = maxAttempts \/ ~isRetryableError(handled)
    IN /\ req.phase = "sent"
       /\ requests' =
            IF req.kind = "refresh" \/ giveUp
            THEN [requests EXCEPT ![r] = DoneRequest]
            ELSE [requests EXCEPT ![r].phase = "sleeping"]
       /\ backgroundRefreshPromises' =
            IF req.kind = "refresh" THEN backgroundRefreshPromises \ {req.key}
            ELSE backgroundRefreshPromises
       /\ lastReturn' =
            IF req.kind # "refresh" /\ giveUp
            THEN [call |-> req.verb, url |-> req.url, outcome |-> "error",
                  data |-> Null, fromCache |-> FALSE, refresh |-> "none",
                  status |-> IF handled.response THEN handled.status ELSE 0,
                  attempts |-> req.attempt]
            ELSE lastReturn
       /\ cache' =
            IF req.kind = "mutate" /\ giveUp
            THEN invalidateRelatedCache(cache, req.url)
            ELSE cache
       /\ UNCHANGED <<now, serverVersion, mutated, notClient>>

\* TransportFails for a get that stores a null entry when it gives up.
TransportFailsCachesError(r, error) ==
    LET req == requests[r]
        handled == handleApiError(error)
        giveUp == req.attempt = maxAttempts \/ ~isRetryableError(handled)
    IN /\ req.phase = "sent"
       /\ requests' =
            IF req.kind = "refresh" \/ giveUp
            THEN [requests EXCEPT ![r] = DoneRequest]
            ELSE [requests EXCEPT ![r].phase = "sleeping"]
       /\ backgroundRefreshPromises' =
            IF req.kind = "refresh" THEN backgroundRefreshPromises \ {req.key}
            ELSE backgroundRefreshPromises
       /\ lastReturn' =
            IF req.kind # "refresh" /\ giveUp
            THEN [call |-> req.verb, url |-> req.url, outcome |-> "error",
                  data |-> Null, fromCache |-> FALSE, refresh |-> "none",
                  status |-> IF handled.response THEN handled.status ELSE 0,
                  attempts |-> req.attempt]
            ELSE lastReturn
       /\ cache' =
            IF req.kind = "get" /\ req.useCache /\ giveUp
            THEN cacheAfterSet(cache, generateKey(req.key, req.params), Null, req.ttl, now)
            ELSE cache
       /\ UNCHANGED <<now, serverVersion, mutated, notClient>>

\* TransportFails for a refresh that drops its in-flight marker only on
\* success.
TransportFailsKeepsMarker(r, error) ==
    LET req == requests[r]
        handled == handleApiError(error)
        giveUp == req.attempt = maxAttempts \/ ~isRetryableError(handled)
    IN /\ req.phase = "sent"
       /\ requests' =
            IF req.kind = "refresh" \/ giveUp
            THEN [requests EXCEPT ![r] = DoneRequest]
            ELSE [requests EXCEPT ![r].phase = "sleeping"]
       /\ backgroundRefreshPromises' = backgroundRefreshPromises
       /\ lastReturn' =
            IF req.kind # "refresh" /\ giveUp
            THEN [call |-> req.verb, url |-> req.url, outcome |-> "error",
                  data |-> Null, fromCache |-> FALSE, refresh |-> "none",
                  status |-> IF handled.response THEN handled.status ELSE 0,
                  attempts |-> req.attempt]
            ELSE lastReturn
       /\ UNCHANGED <<now, cache, serverVersion, mutated, notClient>>

\* axios rejects request r with error. get / post / put / delete go through
\* handleApiError and withRetry; a background refresh swallows the error.
TransportFails(r, error) ==
    LET req == requests[r]
        handled == handleApiError(error)
        giveUp == req.attempt = maxAttempts \/ ~isRetryableError(handled)
    IN /\ req.phase = "sent"
       /\ requests' =
            IF req.kind = "refresh" \/ giveUp
            THEN [requests EXCEPT ![r] = DoneRequest]
            ELSE [requests EXCEPT ![r].phase = "sleeping"]
       /\ backgroundRefreshPromises' =
            IF req.kind = "refresh" THEN backgroundRefreshPromises \ {req.key}
            ELSE backgroundRefreshPromises
       /\ lastReturn' =
            IF req.kind # "refresh" /\ giveUp
            THEN [call |-> req.verb, url |-> req.url, outcome |-> "error",
                  data |-> Null, fromCache |-> FALSE, refresh |-> "none",
                  status |-> IF handled.response THEN handled.status ELSE 0,
                  attempts |-> req.attempt]
            ELSE lastReturn
       /\ UNCHANGED <<now, cache, serverVersion, mutated, notClient>>

\* withRetry's sleep(delay) is over: the next attempt is sent.
RetryWakes(r) ==
    /\ requests[r].phase = "sleeping"
    /\ requests' = [requests EXCEPT ![r].phase = "sent",
                                    ![r].attempt = requests[r].attempt + 1]
    /\ UNCHANGED <<now, cache, serverVersion, backgroundRefreshPromises,
                   lastReturn, mutated, notClient>>

ClientTick ==
    /\ now < MaxTime
    /\ now' = now + 1
    /\ UNCHANGED <<cache, clientVars, notClient>>

ClientInit ==
    /\ serverVersion = [f \in Families |-> 0]
    /\ requests = <<>>
    /\ backgroundRefreshPromises = {}
    /\ lastReturn = NoReturn
    /\ mutated = [f \in Families |-> 0]

ClientNext ==
    \/ \E call \in ClientCalls, useCache \in BOOLEAN, swr \in BOOLEAN, ttl \in Ttls :
         ClientGet(call, useCache, swr, ttl)
    \/ \E verb \in Verbs, url \in ClientUrls : ClientMutate(verb, url)
    \/ \E r \in DOMAIN requests : ServerResponds(r)
    \/ \E r \in DOMAIN requests : ClientReceives(r)
    \/ \E r \in DOMAIN requests, error \in AxiosErrors : TransportFails(r, error)
    \/ \E r \in DOMAIN requests : RetryWakes(r)
    \/ ClientTick

\* The client used on one resource family with and without query parameters,
\* and on another family: more requests, fewer kinds of call, no transport
\* failure.
MaxKeyRequests == 3
KeyCalls == {<<UrlA, NoParams>>, <<UrlA, ParamPQ>>, <<UrlC, NoParams>>}
KeyMutations == {UrlAB}

ClientKeysNext ==
    \/ \E call \in KeyCalls, swr \in BOOLEAN :
         ClientGetCapped(call, TRUE, swr, 0, MaxKeyRequests)
    \/ \E verb \in Verbs, url \in KeyMutations :
         ClientMutateCapped(verb, url, MaxKeyRequests)
    \/ \E r \in DOMAIN requests : ServerResponds(r)
    \/ \E r \in DOMAIN requests : ClientReceives(r)
    \/ ClientTick

\* ========================================================================
\* withRetry
\* ========================================================================

\* Largest maxAttempts the model configures withRetry with.
MaxAttempts == 3
\* RETRY_CONFIGS.standard in units of 250 ms.
baseDelay == 4
maxDelay == 20
exponentialBase == 2

\* A maxDelay that the second attempt's exponential delay exceeds.
lowMaxDelay == 6

RetryConfigs ==
    [maxAttempts : 1..MaxAttempts, baseDelay : {baseDelay},
     maxDelay : {lowMaxDelay, maxDelay},
     exponentialBase : {1, exponentialBase}, jitter : BOOLEAN]

\* Errors the operation rejects with: raw transport errors and the errors
\* handleApiError makes of them.
HttpStatuses == {400, 401, 404, 408, 409, 429, 500, 501, 502, 503, 504}
ResponseErrors == {[response |-> TRUE, status |-> st] : st \in HttpStatuses}
OperationErrors ==
    AxiosErrors \cup ResponseErrors \cup {handleApiError(e) : e \in AxiosErrors}

RECURSIVE pow(_, _)
pow(b, n) == IF n = 0 THEN 1 ELSE b * pow(b, n - 1)

min(a, b) == IF a <= b THEN a ELSE b
max(a, b) == IF a >= b THEN a ELSE b

\* The whole-unit values delay * 0.25 * (Math.random() * 2 - 1) can take,
\* Math.random() being in [0, 1).
jitterValues(delay) == {j \in (0 - delay)..delay : 4 * j >= 0 - delay /\ 4 * j < delay}

\* calculateDelay without the maxDelay cap.
calculateDelayNoCap(attempt, config) ==
    LET delay == config.baseDelay * pow(config.exponentialBase, attempt - 1)
    IN IF config.jitter
       THEN {max(0, delay + j) : j \in jitterValues(delay)}
       ELSE {delay}

\* calculateDelay: the set of delays it can return for this attempt.
calculateDelay(attempt, config) ==
    LET exponentialDelay == config.baseDelay * pow(config.exponentialBase, attempt - 1)
        delay == min(exponentialDelay, config.maxDelay)
    IN IF config.jitter
       THEN {max(0, delay + j) : j \in jitterValues(delay)}
       ELSE {delay}

NoOutcome == [kind |-> "none", status |-> 0, attempt |-> 0, maxAttempts |-> 0]

IdleRun ==
    [phase |-> "idle", maxAttempts |-> 0, jitter |-> FALSE,
     maxDelay |-> 0, exponentialBase |-> 0, attempt |-> 0,
     calls |-> 0, errors |-> <<>>, delays |-> <<>>, outcome |-> NoOutcome]

\* The config of the running call, as calculateDelay reads it.
runConfig ==
    [maxAttempts |-> retryRun.maxAttempts, baseDelay |-> baseDelay,
     maxDelay |-> retryRun.maxDelay, exponentialBase |-> retryRun.exponentialBase,
     jitter |-> retryRun.jitter]

\* withRetry(operation, config): the loop starts with attempt 1 and invokes
\* the operation.
WithRetry(config) ==
    /\ retryRun.phase = "idle"
    /\ retryRun' = [IdleRun EXCEPT !.phase = "running",
                                   !.maxAttempts = config.maxAttempts,
                                   !.jitter = config.jitter,
                                   !.maxDelay = config.maxDelay,
                                   !.exponentialBase = config.exponentialBase,
                                   !.attempt = 1, !.calls = 1]
    /\ UNCHANGED notRetry

\* The operation resolves: withRetry returns its result.
OperationResolves ==
    /\ retryRun.phase = "running"
    /\ retryRun' = [retryRun EXCEPT
                      !.phase = "returned",
                      !.outcome = [kind |-> "result", status |-> 0,
                                   attempt |-> retryRun.attempt,
                                   maxAttempts |-> retryRun.maxAttempts]]
    /\ UNCHANGED notRetry

\* withRetry with a loop that allows one attempt more than maxAttempts.
retryAfterRejectExtra(run, error, delay) ==
    LET failed == [run EXCEPT !.errors = Append(run.errors, error)]
    IN IF run.attempt = run.maxAttempts + 1 \/ ~isRetryableError(error)
       THEN [failed EXCEPT
               !.phase = "thrown",
               !.outcome = [kind |-> "NetworkError",
                            status |-> IF error.response THEN error.status ELSE 0,
                            attempt |-> run.attempt,
                            maxAttempts |-> run.maxAttempts]]
       ELSE [failed EXCEPT !.phase = "sleeping", !.delays = Append(run.delays, delay)]

\* The catch block of the loop: give up with a NetworkError that carries
\* error.response?.status and {attempt, maxAttempts}, or sleep for delay.
retryAfterReject(run, error, delay) ==
    LET failed == [run EXCEPT !.errors = Append(run.errors, error)]
    IN IF run.attempt = run.maxAttempts \/ ~isRetryableError(error)
       THEN [failed EXCEPT
               !.phase = "thrown",
               !.outcome = [kind |-> "NetworkError",
                            status |-> IF error.response THEN error.status ELSE 0,
                            attempt |-> run.attempt,
                            maxAttempts |-> run.maxAttempts]]
       ELSE [failed EXCEPT !.phase = "sleeping", !.delays = Append(run.delays, delay)]

\* The operation rejects with error.
OperationRejects(error) ==
    /\ retryRun.phase = "running"
    /\ \E delay \in calculateDelay(retryRun.attempt, runConfig) :
         retryRun' = retryAfterReject(retryRun, error, delay)
    /\ UNCHANGED notRetry

\* sleep(delay) is over: the next iteration invokes the operation again.
SleepEnds ==
    /\ retryRun.phase = "sleeping"
    /\ retryRun' = [retryRun EXCEPT !.phase = "running",
                                    !.attempt = retryRun.attempt + 1,
                                    !.calls = retryRun.calls + 1]
    /\ UNCHANGED notRetry

RetryInit == retryRun = IdleRun

RetryNext ==
    \/ \E config \in RetryConfigs : WithRetry(config)
    \/ OperationResolves
    \/ \E error \in OperationErrors : OperationRejects(error)
    \/ SleepEnds

\* ========================================================================
\* useOptimisticUpdate
\* ========================================================================
\* The hook is called through the executeOptimisticUpdate of the latest
\* render, so the state.data it captures is the current data.

\* executeOptimisticUpdate calls the model makes.
MaxApplies == 2
\* options.rollbackDelay (default 3000 ms), in ticks.
rollbackDelay == 2

initialData == <<"d0">>
\* The optimisticData of the a-th executeOptimisticUpdate call.
speculativeOf(a) == <<"speculative", a>>
\* Values the caller passes to updateData.
UpdateValues == {<<"u1">>}

InitialOptState ==
    [data |-> initialData, loading |-> FALSE, error |-> Null, isOptimistic |-> FALSE]

\* clearTimeout(rollbackTimeoutRef.current): cancels the timer of the apply the
\* ref holds, if it has not fired yet.
clearRollbackTimeout(as) ==
    IF rollbackTimeoutRef # 0 /\ as[rollbackTimeoutRef].timer = "armed"
    THEN [as EXCEPT ![rollbackTimeoutRef].timer = "cleared"]
    ELSE as

\* executeOptimisticUpdate(optimisticData, updateParams) up to the await of
\* updateFunction.
ExecuteOptimisticUpdate ==
    LET a == Len(applies) + 1
    IN /\ a <= MaxApplies
       /\ originalDataRef' = optState.data
       /\ optState' = [optState EXCEPT !.data = speculativeOf(a), !.loading = TRUE,
                                       !.error = Null, !.isOptimistic = TRUE]
       /\ applies' = Append(clearRollbackTimeout(applies),
                            [speculative |-> speculativeOf(a), prior |-> optState.data,
                             phase |-> "inflight", timer |-> "none", due |-> 0])
       /\ UNCHANGED <<now, rollbackTimeoutRef, optCallbackLog, notOpt>>

\* OptimisticSucceeds that also arms a rollback timer for the apply.
OptimisticSucceedsArmsTimer(a) ==
    /\ applies[a].phase = "inflight"
    /\ optState' = [optState EXCEPT !.data = resultOf(a), !.loading = FALSE,
                                    !.error = Null, !.isOptimistic = FALSE]
    /\ applies' = [applies EXCEPT ![a].phase = "succeeded", ![a].timer = "armed",
                                  ![a].due = now + rollbackDelay]
    /\ rollbackTimeoutRef' = a
    /\ optCallbackLog' = Append(optCallbackLog, <<"onSuccess", resultOf(a)>>)
    /\ UNCHANGED <<now, originalDataRef, notOpt>>

\* updateFunction of apply a resolves: the authoritative result is shown.
OptimisticSucceeds(a) ==
    /\ applies[a].phase = "inflight"
    /\ optState' = [optState EXCEPT !.data = resultOf(a), !.loading = FALSE,
                                    !.error = Null, !.isOptimistic = FALSE]
    /\ applies' = [applies EXCEPT ![a].phase = "succeeded"]
    /\ optCallbackLog' = Append(optCallbackLog, <<"onSuccess", resultOf(a)>>)
    /\ UNCHANGED <<now, rollbackTimeoutRef, originalDataRef, notOpt>>

\* updateFunction of apply a rejects: the rollback timer is armed and kept in
\* the ref, the error is shown next to the optimistic data.
OptimisticFails(a) ==
    /\ applies[a].phase = "inflight"
    /\ applies' = [applies EXCEPT ![a].phase = "failed", ![a].timer = "armed",
                                  ![a].due = now + rollbackDelay]
    /\ rollbackTimeoutRef' = a
    /\ optState' = [optState EXCEPT !.loading = FALSE, !.error = errorOf(a),
                                    !.isOptimistic = TRUE]
    /\ optCallbackLog' = Append(optCallbackLog, <<"onError", errorOf(a), originalDataRef>>)
    /\ UNCHANGED <<now, originalDataRef, notOpt>>

\* The rollback timer of apply a fires.
RollbackFires(a) ==
    /\ applies[a].timer = "armed"
    /\ now >= applies[a].due
    /\ optState' = [optState EXCEPT !.data = originalDataRef, !.loading = FALSE,
                                    !.error = errorOf(a), !.isOptimistic = FALSE]
    /\ applies' = [applies EXCEPT ![a].timer = "fired"]
    /\ UNCHANGED <<now, rollbackTimeoutRef, originalDataRef, optCallbackLog, notOpt>>

RollbackImmediately ==
    /\ applies' = clearRollbackTimeout(applies)
    /\ optState' = [optState EXCEPT !.data = originalDataRef, !.isOptimistic = FALSE,
                                    !.error = Null]
    /\ UNCHANGED <<now, rollbackTimeoutRef, originalDataRef, optCallbackLog, notOpt>>

UpdateData(newData) ==
    /\ optState' = [optState EXCEPT !.data = newData, !.isOptimistic = FALSE]
    /\ originalDataRef' = newData
    /\ UNCHANGED <<now, rollbackTimeoutRef, applies, optCallbackLog, notOpt>>

ClearError ==
    /\ optState' = [optState EXCEPT !.error = Null]
    /\ UNCHANGED <<now, rollbackTimeoutRef, originalDataRef, applies, optCallbackLog, notOpt>>

\* Time passes; a timer that is due fires before the clock moves on.
OptTick ==
    /\ now < MaxTime
    /\ \A a \in DOMAIN applies : applies[a].timer = "armed" => applies[a].due > now
    /\ now' = now + 1
    /\ UNCHANGED <<optVars, notOpt>>

OptInit ==
    /\ optState = InitialOptState
    /\ rollbackTimeoutRef = 0
    /\ originalDataRef = initialData
    /\ applies = <<>>
    /\ optCallbackLog = <<>>

OptNext ==
    \/ ExecuteOptimisticUpdate
    \/ \E a \in DOMAIN applies : OptimisticSucceeds(a)
    \/ \E a \in DOMAIN applies : OptimisticFails(a)
    \/ \E a \in DOMAIN applies : RollbackFires(a)
    \/ RollbackImmediately
    \/ \E newData \in UpdateValues : UpdateData(newData)
    \/ ClearError
    \/ OptTick

\* ========================================================================
\* Specifications
\* ========================================================================
Init == CacheInit /\ UploadInit /\ AsyncInit /\ ClientInit /\ RetryInit /\ OptInit

SpecCache == Init /\ [][CacheNext]_vars

SpecUpload == Init /\ [][UploadNext]_vars

SpecAsync == Init /\ [][AsyncNext]_vars

SpecClient == Init /\ [][ClientNext]_vars
SpecClientKeys == Init /\ [][ClientKeysNext]_vars

SpecRetry == Init /\ [][RetryNext]_vars

SpecOpt == Init /\ [][OptNext]_vars

\* Every transport call settles in the end: the fetch resolves or rejects.
UploadSettles ==
    \E c \in DOMAIN uploadCalls : UploadSucceeds(c) \/ UploadFails(c) \/ UploadAborted(c)

SpecUploadFair == SpecUpload /\ WF_vars(UploadSettles)
SpecUploadProgress == Init /\ [][UploadProgressNext]_vars

\* ------------------------------------------------------------------------
\* Properties of ApiCache
\* ------------------------------------------------------------------------
SameProps(pA, pB) ==
    /\ pA.defined = pB.defined
    /\ {pA.props[i] : i \in DOMAIN pA.props} = {pB.props[i] : i \in DOMAIN pB.props}

\* C8: key derivation is order-independent: a get whose params hold the same
\* key-value pairs as those of a stored, unexpired entry (in any insertion
\* order) returns that entry's value.
KeyOrderIndependent ==
    [][\A u \in CacheUrls, pA \in ParamObjs, pB \in ParamObjs :
          (SameProps(pA, pB) /\ CacheGet(u, pB)) =>
              LET i == MapIndex(cache, generateKey(u, pA))
              IN (i # 0 /\ ~isExpired(cache[i], now)) => lastOp'.result = cache[i].data]_vars

\* C9: a get at time t returns an entry stored at s with ttl T when
\* t - s < T, and returns null when t - s >= T (also at t - s = T).
TtlExpiryExact ==
    [][\A u \in CacheUrls, p \in ParamObjs :
          CacheGet(u, p) =>
              LET i == MapIndex(cache, generateKey(u, p))
              IN i # 0 =>
                  IF now - cache[i].timestamp < cache[i].ttl
                  THEN lastOp'.result = cache[i].data
                  ELSE lastOp'.result = Null]_vars

\* C10: after every operation the store holds at most maxSize entries.
SizeBound == Len(cache) <= maxSize

\* A set of a new key into a full store has just evicted an entry.
SizeBoundWitness ==
    lastOp.op = "set" /\ lastOp.evicted > 0 /\ Len(cache) = maxSize

\* ------------------------------------------------------------------------
\* Properties of useFileUpload
\* ------------------------------------------------------------------------
Uploading == {f \in DOMAIN uploadProgress : uploadProgress[f].status = "uploading"}
InFlight == {c \in DOMAIN uploadCalls : uploadCalls[c].inflight}

\* C1: in every reachable state at most maxConcurrentUploads tasks have
\* status 'uploading'.
ConcurrencyBound == Cardinality(Uploading) <= maxConcurrentUploads

\* C4: a task whose status is completed, error or cancelled keeps that
\* status in every later state.
TerminalIsFinal ==
    [][\A f \in DOMAIN uploadProgress :
          uploadProgress[f].status \in Terminal =>
              uploadProgress'[f].status = uploadProgress[f].status]_vars

\* C5: cancelUpload on a task that is already completed, error or cancelled
\* leaves the task's status, error and progress fields unchanged.
CancelTerminalNoop ==
    [][\A f \in DOMAIN uploadProgress :
          (CancelUpload(f) /\ uploadProgress[f].status \in Terminal) =>
              uploadProgress'[f] = uploadProgress[f]]_vars

\* C6: onAllUploadsComplete is invoked exactly once per started batch: never
\* twice, exactly when the last promise of the batch has settled, and every
\* started batch leads to it; at that point and afterwards every task is
\* terminal, and the reported list holds exactly one entry per task.
BatchSettled ==
    /\ BatchCalls # {}
    /\ \A c \in BatchCalls : ~uploadCalls[c].inflight

AggregateOnceInv ==
    /\ Len(completeEvents) <= 1
    /\ Len(completeEvents) = 1 <=> BatchSettled
    /\ Len(completeEvents) = 1 =>
          /\ \A f \in DOMAIN uploadProgress : uploadProgress[f].status \in Terminal
          /\ Len(completeEvents[1]) = Len(selectedFiles)
          /\ \A f \in DOMAIN selectedFiles :
                Cardinality({i \in DOMAIN completeEvents[1] :
                                completeEvents[1][i].fileId = f}) = 1

AggregateOnce ==
    /\ []AggregateOnceInv
    /\ (BatchCalls # {}) ~> (Len(completeEvents) = 1)

\* A batch of three whose report lists a failure and a cancelled upload.
AggregateOnceWitness ==
    /\ Len(completeEvents) = 1
    /\ Len(selectedFiles) = 3
    /\ \E i \in DOMAIN completeEvents[1] : ~completeEvents[1][i].success
    /\ \E f \in DOMAIN uploadProgress : uploadProgress[f].status = "cancelled"
    /\ \E f \in DOMAIN uploadProgress : uploadProgress[f].status = "completed"

\* C7: in a batch without global error, the task of a file that passes
\* validation is 'pending' until uploadFiles() runs, and once uploadFiles()
\* has run an upload call has been started for it.
ValidSubsetUploads ==
    (validationResults.present /\ validationResults.globalErrors = {}) =>
        \A f \in DOMAIN selectedFiles :
            validationResults.results[f].isValid =>
                IF uploadFilesCalled = 0
                THEN uploadProgress[f].status \in {"pending", "cancelled"}
                ELSE \E c \in DOMAIN uploadCalls : uploadCalls[c].fileId = f

\* ------------------------------------------------------------------------
\* Properties of useAsyncOperation
\* ------------------------------------------------------------------------
\* C2: without debounce, when the asyncFunction call of an execution settles
\* after a newer execution has started, nothing is written to state and no
\* callback is delivered.
SupersededNeverWrites ==
    [][\A e \in DOMAIN executions :
          ( /\ asyncOptions.debounceMs = 0
            /\ e < Len(executions)
            /\ AsyncResolves(e) \/ AsyncRejects(e) ) =>
              (asyncState' = asyncState /\ callbackLog' = callbackLog)]_vars

\* C3: a get answered from the cache never returns data older than the version
\* left by a post / put / delete of the same resource family that has already
\* returned successfully.
NoStaleAfterMutation ==
    [][\A call \in ClientCalls, useCache \in BOOLEAN, swr \in BOOLEAN, ttl \in Ttls :
         (ClientGet(call, useCache, swr, ttl) /\ lastReturn'.fromCache) =>
             lastReturn'.data[1] >= mutated[baseEndpoint(call[1])]]_vars

RetryAttemptsExact ==
    /\ [](retryRun.phase # "idle" =>
            /\ retryRun.calls >= 1
            /\ retryRun.calls <= retryRun.maxAttempts
            /\ retryRun.calls = retryRun.attempt
            /\ (retryRun.phase = "returned" =>
                    /\ retryRun.outcome.kind = "result"
                    /\ Len(retryRun.errors) = retryRun.calls - 1)
            /\ (retryRun.phase = "thrown" =>
                    /\ retryRun.outcome.kind = "NetworkError"
                    /\ Len(retryRun.errors) = retryRun.calls)
            /\ ((retryRun.phase = "thrown" /\
                 \A i \in DOMAIN retryRun.errors : isRetryableError(retryRun.errors[i])) =>
                    retryRun.calls = retryRun.maxAttempts))
    /\ [][retryRun.phase \in {"returned", "thrown"} => retryRun' = retryRun]_vars

\* withRetry has given up after maxAttempts = MaxAttempts failed attempts, all
\* of them retryable.
RetryAttemptsExactWitness ==
    /\ retryRun.phase = "thrown"
    /\ retryRun.maxAttempts = MaxAttempts
    /\ retryRun.calls = MaxAttempts
    /\ \A i \in DOMAIN retryRun.errors : isRetryableError(retryRun.errors[i])

\* C12: when the transport of a get / post / put / delete fails with a
\* non-retryable error (a response whose status is not a retryable one), the
\* request ends there: one attempt, no sleep, the error is returned.
NonRetryableFailsOnce ==
    [][\A r \in DOMAIN requests, error \in AxiosErrors :
         ( /\ TransportFails(r, error)
           /\ requests[r].kind # "refresh"
           /\ ~isRetryableError(error) ) =>
             ( /\ requests'[r].phase = "done"
               /\ lastReturn'.outcome = "error"
               /\ lastReturn'.attempts = 1 )]_vars

\* C14: the error a get / post / put / delete ends with carries the HTTP status
\* of the transport failure and the number of the attempt that failed last.
TerminalErrorKeepsStatus ==
    [][\A r \in DOMAIN requests, error \in AxiosErrors :
         ( /\ TransportFails(r, error)
           /\ requests[r].kind # "refresh"
           /\ requests'[r].phase = "done"
           /\ error.response ) =>
             ( /\ lastReturn'.outcome = "error"
               /\ lastReturn'.status = error.status
               /\ lastReturn'.attempts = requests[r].attempt )]_vars

\* Keys of the background refreshes whose transport call has not settled.
RefreshesInFlight ==
    {r \in DOMAIN requests : requests[r].kind = "refresh" /\ requests[r].phase # "done"}

\* No two refreshes in flight share a cache key, and the in-flight markers are
\* exactly the keys of the refreshes in flight.
OneRefreshInv ==
    /\ \A r1, r2 \in RefreshesInFlight :
         (/\ requests[r1].key = requests[r2].key
          /\ requests[r1].params = requests[r2].params) => r1 = r2
    /\ backgroundRefreshPromises = {requests[r].key : r \in RefreshesInFlight}

\* C15: at most one background refresh is in flight per cache key; the
\* in-flight markers are exactly the keys of the refreshes in flight, so a
\* marker goes when its refresh settles, with or without success; a
\* stale-while-revalidate hit for a key whose refresh is in flight starts no
\* transport call.
OneRefreshPerKey ==
    /\ []OneRefreshInv
    /\ [][\A call \in ClientCalls, ttl \in Ttls :
             ( /\ ClientGet(call, TRUE, TRUE, ttl)
               /\ cacheLookup(cleanup(cache, now), generateKey(call[1], call[2]), now) # Null
               /\ \E r \in RefreshesInFlight :
                     /\ requests[r].key = call[1]
                     /\ requests[r].params = call[2] ) =>
                 requests' = requests]_vars

\* A stale-while-revalidate hit has just been served while the refresh of its
\* key was in flight, and that refresh is still the only one.
OneRefreshPerKeyWitness ==
    /\ lastReturn.refresh = "suppressed"
    /\ Cardinality(RefreshesInFlight) = 1
    /\ \E r \in RefreshesInFlight : requests[r].key = lastReturn.url

\* Apply a has failed, is the latest apply, its rollback timer is pending and
\* the state shows its speculative value with its error.
InGraceWindow(a) ==
    /\ a = Len(applies)
    /\ applies[a].timer = "armed"
    /\ optState.data = applies[a].speculative
    /\ optState.isOptimistic
    /\ optState.error = errorOf(a)

\* A call the user of the hook makes.
CallerStep ==
    \/ ExecuteOptimisticUpdate
    \/ RollbackImmediately
    \/ ClearError
    \/ \E newData \in UpdateValues : UpdateData(newData)

\* C16: during the grace window of a failed apply, as long as the caller makes
\* no call, data stays the speculative value with the error set and
\* isOptimistic = TRUE; the step that ends the window is the rollback timer of
\* that apply, which restores the value held before the apply and clears
\* isOptimistic.
GraceWindowThenRollback ==
    [][\A a \in DOMAIN applies :
         (InGraceWindow(a) /\ ~CallerStep) =>
            IF RollbackFires(a)
            THEN /\ now >= applies[a].due
                 /\ optState'.data = applies[a].prior
                 /\ ~optState'.isOptimistic
            ELSE /\ optState'.data = applies[a].speculative
                 /\ optState'.isOptimistic
                 /\ optState'.error = errorOf(a)]_vars

\* Values that are confirmed: the initial data, authoritative results and the
\* values given to updateData.
ConfirmedValues ==
    {initialData} \cup UpdateValues \cup {resultOf(a) : a \in 1..MaxApplies}

\* C17: the value a rollback restores is always a confirmed value, never the
\* speculative value of an apply, and whenever isOptimistic is FALSE the data
\* shown is a confirmed value.
RollbackValueConfirmed ==
    /\ originalDataRef \in ConfirmedValues
    /\ ~optState.isOptimistic => optState.data \in ConfirmedValues

\* The entry the store holds for (url, params), 0 when there is none.
EntryOf(call) == MapIndex(cache, generateKey(call[1], call[2]))

CancelledUnstarted(f) ==
    /\ uploadProgress[f].status = "cancelled"
    /\ \A c \in DOMAIN uploadCalls : uploadCalls[c].fileId # f

\* C19: a task cancelled while it was pending never gets a transport upload
\* call afterwards, uploadFiles() included, and stays 'cancelled'.
CancelledPendingNeverUploads ==
    [][\A f \in DOMAIN uploadProgress :
          CancelledUnstarted(f) =>
              /\ \A c \in DOMAIN uploadCalls' : uploadCalls'[c].fileId # f
              /\ f \in DOMAIN uploadProgress'
              /\ uploadProgress'[f].status = "cancelled"]_vars

\* No exception has escaped an executeOperation run that execute() awaits.
NoEscapedException ==
    \A e \in DOMAIN executions : ~(executions[e].awaited /\ executions[e].threw)

\* C20: the promise execute() returns never rejects, and when the
\* asyncFunction call of an execution that was not aborted fails, or the
\* handling of its result fails, the state has the error set and loading =
\* FALSE.
ExecuteNeverRejects ==
    /\ []NoEscapedException
    /\ [][\A e \in DOMAIN executions :
             ( /\ ~executions[e].aborted
               /\ \/ AsyncRejects(e)
                  \/ AsyncResolves(e) /\ asyncOptions.onSuccessThrows ) =>
                 (asyncState'.error # Null /\ ~asyncState'.loading)]_vars

\* With debounce, no asyncFunction call has been made for an execute() that
\* was followed by another execute(), and none was made twice.
DebounceCollapsed ==
    asyncOptions.debounceMs > 0 =>
        /\ \A e1, e2 \in DOMAIN executions :
              executions[e1].call = executions[e2].call => e1 = e2
        /\ Len(executions) <= executeCalls

\* C21: with debounceMs > 0, execute() itself never calls asyncFunction; the
\* call is made by the timer of the latest execute(), not before debounceMs
\* have passed since that execute(), and carries that execute()'s arguments;
\* the execute() calls before it in the burst get no call of their own.
DebounceLastCallOnly ==
    /\ []DebounceCollapsed
    /\ [][asyncOptions.debounceMs > 0 =>
            /\ Execute =>
                  /\ executions' = abortCurrent(executions, abortControllerRef)
                  /\ debounceTimeout'.call = executeCalls'
                  /\ debounceTimeout'.due = now + asyncOptions.debounceMs
            /\ Len(executions') > Len(executions) =>
                  /\ Len(executions') = Len(executions) + 1
                  /\ debounceTimeout.pending
                  /\ now >= debounceTimeout.due
                  /\ executions'[Len(executions')].call = executeCalls
                  /\ ~debounceTimeout'.pending]_vars

\* Two execute() calls were made in one burst and the only asyncFunction call
\* is the one for the second.
DebounceLastCallOnlyWitness ==
    /\ asyncOptions.debounceMs > 0
    /\ executeCalls = 2
    /\ now = asyncOptions.debounceMs
    /\ Len(executions) = 1
    /\ executions[1].call = 2

\* The files of the selection that fail validateFile.
InvalidFiles ==
    {f \in DOMAIN selectedFiles : ~validateFile(selectedFiles[f]).isValid}

\* No invalid file is 'uploading' or has a transport call.
InvalidNeverUploading ==
    \A f \in InvalidFiles :
        /\ uploadProgress[f].status # "uploading"
        /\ \A c \in DOMAIN uploadCalls : uploadCalls[c].fileId # f

\* C22: selectFiles creates the task of a file that fails per-file validation
\* with status 'error', and such a task is never 'uploading' and never has a
\* transport call.
InvalidFileNeverUploads ==
    /\ []InvalidNeverUploading
    /\ [][~validationResults.present /\ validationResults'.present =>
            \A f \in DOMAIN selectedFiles' :
                ~validateFile(selectedFiles'[f]).isValid =>
                    uploadProgress'[f].status = "error"]_vars

\* uploadFiles() was called on a selection of valid and invalid files.
InvalidFileNeverUploadsWitness ==
    /\ uploadFilesCalled = 1
    /\ InvalidFiles # {}
    /\ InvalidFiles # DOMAIN selectedFiles

\* C23: when validateFiles reported a global error for the selection (too many
\* files, total size, duplicate names), there is no transport call and no task
\* is 'uploading', whether or not uploadFiles() was called.
GlobalErrorBlocksBatch ==
    (validationResults.present /\ validationResults.globalErrors # {}) =>
        /\ uploadCalls = <<>>
        /\ \A f \in DOMAIN uploadProgress : uploadProgress[f].status # "uploading"

\* uploadFiles() was called on a selection whose files are all valid but two of
\* which have the same name.
GlobalErrorBlocksBatchWitness ==
    /\ uploadFilesCalled = 1
    /\ validationResults.globalErrors = {"duplicate names"}
    /\ InvalidFiles = {}

\* The step of call c leaves the tasks, controllers, active marks and transport
\* calls of the files other than c's alone.
LeavesSiblingsAlone(c) ==
    LET f == uploadCalls[c].fileId
    IN /\ \A g \in DOMAIN uploadProgress \ {f} :
             /\ uploadProgress'[g] = uploadProgress[g]
             /\ abortControllers'[g] = abortControllers[g]
             /\ (g \in activeUploads') = (g \in activeUploads)
       /\ \A d \in DOMAIN uploadCalls :
             uploadCalls[d].fileId # f => uploadCalls'[d] = uploadCalls[d]

SomeUploadFailed ==
    \E f \in DOMAIN uploadProgress : uploadProgress[f].error = NetworkMsg

\* Every task is in a terminal state and the aggregate callback has fired.
BatchOver ==
    /\ \A f \in DOMAIN uploadProgress : uploadProgress[f].status \in Terminal
    /\ Len(completeEvents) = 1

\* C24: the failure of one upload changes nothing of the other tasks of the
\* batch (status, progress, controller, transport calls); after it every task
\* still reaches a terminal state and the aggregate callback still fires.
FailureIsolated ==
    /\ [][\A c \in DOMAIN uploadCalls : UploadFails(c) => LeavesSiblingsAlone(c)]_vars
    /\ (SomeUploadFailed ~> BatchOver)

\* One upload has failed while another task is uploading with its transport
\* call in flight.
FailureIsolatedWitness ==
    \E f, g \in DOMAIN uploadProgress :
        /\ f # g
        /\ uploadProgress[f].status = "error"
        /\ uploadProgress[f].error = NetworkMsg
        /\ uploadProgress[g].status = "uploading"
        /\ \E d \in DOMAIN uploadCalls :
              uploadCalls[d].fileId = g /\ uploadCalls[d].inflight

Waiting == uploadQueue # <<>>

\* The first transport call made for file f (0: none).
firstCall(f) ==
    IF \E c \in DOMAIN uploadCalls : uploadCalls[c].fileId = f
    THEN CHOOSE c \in DOMAIN uploadCalls :
            /\ uploadCalls[c].fileId = f
            /\ \A d \in 1..(c - 1) : uploadCalls[d].fileId # f
    ELSE 0

\* Files were admitted in selection order.
AdmittedInOrder ==
    \A f, g \in DOMAIN uploadProgress :
        (f < g /\ firstCall(g) # 0) => (firstCall(f) # 0 /\ firstCall(f) < firstCall(g))

RetryableIffListed ==
    [][(retryRun.phase = "running" /\ Len(retryRun'.errors) = Len(retryRun.errors) + 1) =>
          LET error == retryRun'.errors[Len(retryRun'.errors)]
              listed == \/ ~error.response
                        \/ error.status \in {408, 409, 429, 500, 502, 503, 504}
          IN /\ isRetryableError(error) = listed
             /\ (retryRun.attempt < retryRun.maxAttempts =>
                    ((retryRun'.phase = "sleeping") = listed))]_vars

\* withRetry has slept after a 409 and has given up at once on a 404, both
\* carried by a response.
RetryableIffListedWitness ==
    /\ retryRun.phase = "thrown"
    /\ retryRun.maxAttempts = MaxAttempts
    /\ retryRun.errors = <<[response |-> TRUE, status |-> 409],
                           [response |-> TRUE, status |-> 404]>>

firstSegment(url) ==
    LET rest == Tail(url)
        stop == IF \E k \in DOMAIN rest : rest[k] = "/"
                THEN CHOOSE k \in DOMAIN rest :
                        rest[k] = "/" /\ \A j \in 1..(k - 1) : rest[j] # "/"
                ELSE Len(rest) + 1
    IN SubSeq(rest, 1, stop - 1)

\* C28: when post / put / delete has succeeded and returns, the cache holds no
\* entry whose key contains the first path segment of the url, and the entries
\* whose key does not contain it are the ones it held before, unchanged and in
\* the same order.
MutationInvalidatesFamily ==
    [][\A r \in DOMAIN requests :
          (requests[r].kind = "mutate" /\ requests[r].phase = "responded"
           /\ requests'[r].phase = "done") =>
              LET segment == firstSegment(requests[r].url)
              IN /\ lastReturn'.call \in Verbs
                 /\ lastReturn'.outcome = "data"
                 /\ \A i \in DOMAIN cache' : ~includes(cache'[i].key, segment)
                 /\ cache' = SelectSeq(cache, LAMBDA e : ~includes(e.key, segment))]_vars

\* A mutation of /a/b has returned after two gets, and the cache holds the
\* entry of the other family only.
MutationInvalidatesFamilyWitness ==
    /\ lastReturn.call \in Verbs
    /\ lastReturn.outcome = "data"
    /\ Len(requests) = MaxKeyRequests
    /\ Len(cache) = 1
    /\ cache[1].key = generateKey(UrlC, NoParams)

\* A background refresh of the entry of (url, params) is in flight.
RefreshInFlightFor(url, params) ==
    \E r \in RefreshesInFlight :
        generateKey(requests[r].key, requests[r].params) = generateKey(url, params)

\* C29: a get with staleWhileRevalidate that hits the cache returns the cached
\* value at once, and it starts a background refresh of that entry unless a
\* refresh of the same derived key (url and params) is already in flight.
RefreshPerDerivedKey ==
    [][\A call \in KeyCalls :
          LET cached == cacheLookup(cleanup(cache, now), generateKey(call[1], call[2]), now)
          IN (ClientGetCapped(call, TRUE, TRUE, 0, MaxKeyRequests) /\ cached # Null) =>
                /\ lastReturn'.fromCache
                /\ lastReturn'.data = cached
                /\ ~RefreshInFlightFor(call[1], call[2]) =>
                      /\ Len(requests') = Len(requests) + 1
                      /\ requests'[Len(requests')].kind = "refresh"
                      /\ requests'[Len(requests')].url = call[1]
                      /\ requests'[Len(requests')].params = call[2]]_vars

\* The active-uploads set holds only tasks whose status is 'uploading'.
ActiveOnlyUploading ==
    \A f \in activeUploads :
        f \in DOMAIN uploadProgress /\ uploadProgress[f].status = "uploading"

\* C31: once the aborted transport call of a cancelled task has settled, the
\* task's id is in neither the active-uploads set nor the abort-controller
\* map, and in every reachable state the active-uploads set holds only tasks
\* whose status is 'uploading'.
CancelReleasesSlot ==
    /\ []ActiveOnlyUploading
    /\ [][\A c \in DOMAIN uploadCalls :
            UploadAborted(c) =>
                /\ uploadCalls[c].fileId \notin activeUploads'
                /\ abortControllers'[uploadCalls[c].fileId] = 0]_vars

RollbackImmediatelyBypasses ==
    [][/\ RollbackImmediately =>
            /\ \A a \in DOMAIN applies' : applies'[a].timer # "armed"
            /\ optState'.data = originalDataRef
            /\ ~optState'.isOptimistic
       /\ \A a \in DOMAIN applies :
            applies[a].timer = "cleared" => applies'[a].timer = "cleared"]_vars

\* base ^ n, by repeated multiplication.
RECURSIVE power(_, _)
power(base, n) == IF n = 0 THEN 1 ELSE base * power(base, n - 1)

\* min(baseDelay * exponentialBase^(attempt-1), maxDelay)
cappedBackoff(attempt, config) ==
    LET d == config.baseDelay * power(config.exponentialBase, attempt - 1)
    IN IF d < config.maxDelay THEN d ELSE config.maxDelay

\* C34: without jitter calculateDelay(attempt, config) is
\* min(baseDelay * exponentialBase^(attempt-1), maxDelay), it does not
\* decrease with the attempt and never exceeds maxDelay, and the sleeps of a
\* withRetry run are these delays, in non-decreasing order.
BackoffCappedMonotone ==
    /\ [](\A config \in RetryConfigs, attempt \in 1..MaxAttempts :
            ~config.jitter =>
                /\ calculateDelay(attempt, config) = {cappedBackoff(attempt, config)}
                /\ \A d1 \in calculateDelay(attempt, config),
                      d2 \in calculateDelay(attempt + 1, config) :
                        d1 <= d2 /\ d2 <= config.maxDelay)
    /\ []((retryRun.phase # "idle" /\ ~retryRun.jitter) =>
            \A i \in DOMAIN retryRun.delays :
                /\ retryRun.delays[i] = cappedBackoff(i, runConfig)
                /\ retryRun.delays[i] <= retryRun.maxDelay
                /\ i > 1 => retryRun.delays[i - 1] <= retryRun.delays[i])

\* A run without jitter has slept twice, the second time for the capped delay.
BackoffCappedMonotoneWitness ==
    /\ ~retryRun.jitter
    /\ retryRun.phase # "idle"
    /\ retryRun.maxDelay = lowMaxDelay
    /\ retryRun.delays = <<baseDelay, lowMaxDelay>>

\* C35: no selected file has more than one transport upload call.
OneUploadPerFile ==
    \A c1, c2 \in DOMAIN uploadCalls :
        uploadCalls[c1].fileId = uploadCalls[c2].fileId => c1 = c2

\* C36: in the list passed to onAllUploadsComplete an entry has success = true
\* only if the upload call it reports received a response, not if it was
\* cancelled in flight.
SuccessMeansCompleted ==
    [][Len(completeEvents') > Len(completeEvents) =>
          LET list == completeEvents'[Len(completeEvents')]
          IN \A i \in DOMAIN list :
                list[i].success =>
                    \E c \in DOMAIN uploadCalls' :
                        /\ uploadCalls'[c].origin = "batch"
                        /\ uploadCalls'[c].fileId = list[i].fileId
                        /\ ~uploadCalls'[c].aborted]_vars

\* C37: for applies a then b, where a's operation failed and b's succeeded and
\* b's authoritative result is shown, the rollback timer of a leaves data at
\* b's result with isOptimistic false when it fires.
RollbackSparesOtherApply ==
    [][\A a, b \in DOMAIN applies :
          (/\ a < b
           /\ applies[a].phase = "failed"
           /\ applies[b].phase = "succeeded"
           /\ optState.data = resultOf(b)
           /\ ~optState.isOptimistic
           /\ RollbackFires(a)) =>
              /\ optState'.data = resultOf(b)
              /\ ~optState'.isOptimistic]_vars

\* Two applies were made and the operations of both have succeeded.
BothSucceeded ==
    /\ Len(applies) = 2
    /\ applies[1].phase = "succeeded"
    /\ applies[2].phase = "succeeded"

\* C38: for applies A then B whose operations both succeed, data is B's
\* authoritative result once both have settled, whichever result arrived
\* first.
LastApplyWins ==
    [][\A a \in DOMAIN applies :
          (OptimisticSucceeds(a) /\ BothSucceeded') => optState'.data = resultOf(2)]_vars

\* C39: a post / put / delete whose transport call fails leaves the cache as
\* it is, from the call through every failed attempt and wait, and when it
\* gives up (error not retryable, or attempts exhausted) the caller gets the
\* error.
FailedMutationKeepsCache ==
    [][\A r \in DOMAIN requests' :
          /\ (r \notin DOMAIN requests /\ requests'[r].kind = "mutate") => cache' = cache
          /\ (r \in DOMAIN requests /\ requests[r].kind = "mutate"
               /\ requests[r].phase \in {"sent", "sleeping"}
               /\ requests'[r].phase \in {"sent", "sleeping", "done"}
               /\ requests'[r] # requests[r]) =>
                /\ cache' = cache
                /\ (requests'[r].phase = "done" =>
                      /\ lastReturn'.call = requests[r].verb
                      /\ lastReturn'.url = requests[r].url
                      /\ lastReturn'.outcome = "error")]_vars

\* A mutation has given up after maxAttempts failed attempts and the cache
\* still holds an entry of the resource family it addressed.
FailedMutationKeepsCacheWitness ==
    /\ lastReturn.call \in Verbs
    /\ lastReturn.outcome = "error"
    /\ lastReturn.attempts = maxAttempts
    /\ Len(cache) = 1
    /\ includes(cache[1].key, baseEndpoint(lastReturn.url))
====
